---- MODULE Spec2Model ----
(***************************************************************************)
(* Model of dahead/usage (main.go): the size cache, the one-level scanner, *)
(* and the bubbletea Model.Update message handler with its commands.       *)
(*                                                                         *)
(* A file name is a sequence of one-character strings, a path is the       *)
(* sequence of the names below "/", so that strings.HasPrefix,             *)
(* filepath.Join, filepath.Dir and filepath.Base are computed.             *)
(*                                                                         *)
(* Not modelled: View, the spinner (SpinnerMsg, SpinnerIdx), Percent and   *)
(* ParentDir of DirEntry, and printIntegrationCommand.                     *)
(***************************************************************************)
EXTENDS Integers, Sequences, FiniteSets, Bags, TLC

VARIABLES
    fs,          \* the filesystem: path -> [IsDir, Size, NoInfo]
    denied,      \* directories os.ReadDir fails on
    sizeCache,   \* main.go:20, path -> int64 (a partial function)
    readers,     \* cacheMutex: callers holding the read lock
    writer,      \* cacheMutex: the caller holding the write lock, or NoCaller
    calls,       \* concurrent getCachedSize calls: caller -> its position
    stores,      \* path -> how many times sizeCache[path] was assigned
    returned,    \* path -> what the last finished getCachedSize(path) returned
    scanned,     \* the last direct scanDirectoryWithCache call and its result,
                 \* until a file is written
    RootDir, CursorPos, ScrollPos, VisibleDirs, Error, Loading, LoadingPath,
    ShowFiles, Height,   \* Model, main.go:51-62
    USAGE_SHOW_FILES,  \* the environment variable, "" when unset
    exit,        \* "running", "quit" (tea.Quit was returned) or "panic"
    cmds,        \* commands and messages in flight between Update calls
    lastMsg,     \* the message Update handled last
    trip         \* how far a drill-down followed by a drill-up has come, and
                 \* the path of the root it started from

cacheVars == <<sizeCache, readers, writer, calls, stores, returned>>
modelVars == <<RootDir, CursorPos, ScrollPos, VisibleDirs, Error, Loading,
               LoadingPath, ShowFiles, Height>>
uiVars == <<modelVars, USAGE_SHOW_FILES, exit, cmds, lastMsg, trip>>
vars == <<fs, denied, cacheVars, scanned, uiVars>>

----------------------------------------------------------------------------
(* Bounds *)

MaxHeight == 3        \* window heights 0..MaxHeight are sent by resizes
MaxOutstanding == 2   \* commands and messages in flight at once
MaxSize == 2          \* file sizes 0..MaxSize
NumCallers == 2       \* concurrent getCachedSize callers
MaxCursor == 3        \* pgup/pgdown are followed while |CursorPos| <= MaxCursor

(* Program constants *)
DefaultHeight == 20
HeaderRows == 2

----------------------------------------------------------------------------
(* Names and paths *)

nA == <<"a">>
nB == <<"b">>
nC == <<"c">>
nF == <<"f">>
nG == <<"g">>
nHid == <<".", "h">>
DotDot == <<".", ".">>
Slash == <<"/">>

FsRoot == <<>>

HasPrefixDot(name) == Len(name) >= 1 /\ name[1] = "."

Join(path, name) == Append(path, name)

\* Mutant of Dir: the parent of the parent
DirOfDir(path) == IF Len(path) <= 1 THEN <<>> ELSE SubSeq(path, 1, Len(path) - 2)

Dir(path) == IF path = <<>> THEN <<>> ELSE SubSeq(path, 1, Len(path) - 1)

Base(path) == IF path = <<>> THEN Slash ELSE path[Len(path)]

\* NoInfo: the entry is still listed by os.ReadDir but is gone, so that
\* DirEntry.Info and os.Stat fail on it.
File(n) == [IsDir |-> FALSE, Size |-> n, NoInfo |-> FALSE]
Folder == [IsDir |-> TRUE, Size |-> 0, NoInfo |-> FALSE]

Exists(f, path) == path \in DOMAIN f

IsDirectory(f, path) == Exists(f, path) /\ f[path].IsDir

\* os.ReadDir: the entries directly below path
ReadDir(f, path) == {q \in DOMAIN f : q = Join(path, Base(q))}

ReadDirFails(f, den, path) == ~IsDirectory(f, path) \/ path \in den

\* e.Info() returns an error
InfoFails(f, q) == f[q].NoInfo

\* os.Stat(path) returns an error
StatFails(f, path) == ~Exists(f, path) \/ f[path].NoInfo

RECURSIVE SumOver(_, _)
SumOver(S, val) ==
    IF S = {} THEN 0
    ELSE LET x == CHOOSE y \in S : TRUE
         IN val[x] + SumOver(S \ {x}, val)

\* Mutant of calculateFullDirSize: subdirectories are not descended into
calculateFullDirSizeFlat(f, den, path) ==
    IF ReadDirFails(f, den, path) THEN 0
    ELSE LET entries == {q \in ReadDir(f, path) :
                            ~HasPrefixDot(Base(q)) /\ ~InfoFails(f, q) /\ ~f[q].IsDir}
         IN SumOver(entries, [q \in entries |-> f[q].Size])

RECURSIVE calculateFullDirSize(_, _, _)
calculateFullDirSize(f, den, path) ==
    IF ReadDirFails(f, den, path) THEN 0
    ELSE LET entries == {q \in ReadDir(f, path) :
                            ~HasPrefixDot(Base(q)) /\ ~InfoFails(f, q)}
             val == [q \in entries |->
                        IF f[q].IsDir THEN calculateFullDirSize(f, den, q)
                        ELSE f[q].Size]
         IN SumOver(entries, val)

----------------------------------------------------------------------------
(* The size cache, main.go:18-22 and 97-114 *)

NoCache == [p \in {} |-> 0]

\* Mutant of cacheLookup: the entry is never found
cacheLookupMiss(cache, path) == [exists |-> FALSE, size |-> 0]

\* main.go:99-104: the lookup under the read lock
cacheLookup(cache, path) ==
    IF path \in DOMAIN cache
    THEN [exists |-> TRUE, size |-> cache[path]]
    ELSE [exists |-> FALSE, size |-> 0]

\* Mutant of cacheStore: the assignment at main.go:110 is lost
cacheStoreLost(cache, path, size) == cache

\* main.go:109-111: the store under the write lock
cacheStore(cache, path, size) ==
    [p \in DOMAIN cache \cup {path} |-> IF p = path THEN size ELSE cache[p]]

\* One whole call of getCachedSize with no other call interleaved:
\* the value returned and the cache afterwards.
getCachedSize(cache, f, den, path) ==
    LET hit == cacheLookup(cache, path)
    IN IF hit.exists
       THEN [size |-> hit.size, cache |-> cache]
       ELSE LET size == calculateFullDirSize(f, den, path)
            IN [size |-> size, cache |-> cacheStore(cache, path, size)]

----------------------------------------------------------------------------
(* getCachedSize step by step, for concurrent callers: main.go:98-114 *)

Callers == 1..NumCallers
NoCaller == 0

\* pc: "idle", "RLocked" (at line 100), "calculate" (at line 107),
\* "Lock" (at line 109), "Locked" (at line 110).  found: whether the path was
\* in sizeCache when the call looked it up.
IdleCall == [pc |-> "idle", path |-> <<>>, size |-> 0, found |-> FALSE]

At(c, pc) == calls[c].pc = pc

Goto(c, pc) == calls' = [calls EXCEPT ![c].pc = pc]

Bump(count, path) ==
    [p \in DOMAIN count \cup {path} |->
        IF p = path THEN (IF p \in DOMAIN count THEN count[p] + 1 ELSE 1)
        ELSE count[p]]

\* The call returns size.  clean: no file was written since.
Return(path, size) ==
    returned' = [p \in DOMAIN returned \cup {path} |->
                    IF p = path
                    THEN [size |-> size, clean |-> TRUE]
                    ELSE returned[p]]

\* cacheMutex.RLock(), main.go:99
RLock(c, path) ==
    /\ At(c, "idle")
    /\ writer = NoCaller
    /\ readers' = readers \cup {c}
    /\ calls' = [calls EXCEPT ![c] = [IdleCall EXCEPT !.pc = "RLocked", !.path = path]]
    /\ UNCHANGED <<fs, denied, sizeCache, writer, stores, returned, scanned, uiVars>>

\* main.go:100-104: the lookup, RUnlock, and the return on a hit
ReadCache(c) ==
    /\ At(c, "RLocked")
    /\ LET hit == cacheLookup(sizeCache, calls[c].path)
       IN IF hit.exists
          THEN /\ calls' = [calls EXCEPT ![c] = IdleCall]
               /\ Return(calls[c].path, hit.size)
          ELSE /\ calls' = [calls EXCEPT ![c].pc = "calculate",
                                         ![c].found = calls[c].path \in DOMAIN sizeCache]
               /\ UNCHANGED returned
    /\ readers' = readers \ {c}
    /\ UNCHANGED <<fs, denied, sizeCache, writer, stores, scanned, uiVars>>

\* main.go:107
Calculate(c) ==
    /\ At(c, "calculate")
    /\ calls' = [calls EXCEPT ![c].pc = "Lock",
                              ![c].size = calculateFullDirSize(fs, denied, calls[c].path)]
    /\ UNCHANGED <<fs, denied, sizeCache, readers, writer, stores, returned,
                   scanned, uiVars>>

\* Mutant of Lock: the call goes on to the store without the write lock
LockSkipped(c) ==
    /\ At(c, "Lock")
    /\ Goto(c, "Locked")
    /\ UNCHANGED <<fs, denied, sizeCache, readers, writer, stores, returned,
                   scanned, uiVars>>

\* cacheMutex.Lock(), main.go:109
Lock(c) ==
    /\ At(c, "Lock")
    /\ readers = {}
    /\ writer = NoCaller
    /\ writer' = c
    /\ Goto(c, "Locked")
    /\ UNCHANGED <<fs, denied, sizeCache, readers, stores, returned, scanned, uiVars>>

\* main.go:110-113: the store, Unlock, and the return
WriteCache(c) ==
    /\ At(c, "Locked")
    /\ sizeCache' = cacheStore(sizeCache, calls[c].path, calls[c].size)
    /\ stores' = Bump(stores, calls[c].path)
    /\ writer' = NoCaller
    /\ calls' = [calls EXCEPT ![c] = IdleCall]
    /\ Return(calls[c].path, calls[c].size)
    /\ UNCHANGED <<fs, denied, readers, scanned, uiVars>>

\* A nil *DirEntry
NoDir == [Name |-> <<>>, Path |-> <<>>, Size |-> 0, IsDir |-> FALSE,
          Level |-> 0, Children |-> <<>>]

\* Nothing was scanned since the filesystem last changed
Unscanned == [path |-> <<>>, err |-> FALSE, dir |-> NoDir]

\* Another process writes a file that is not hidden: its size becomes n
WriteFile(file, n) ==
    /\ file \in DOMAIN fs
    /\ ~fs[file].IsDir
    /\ ~HasPrefixDot(Base(file))
    /\ ~fs[file].NoInfo
    /\ fs[file].Size # n
    /\ fs' = [fs EXCEPT ![file].Size = n]
    /\ returned' = [p \in DOMAIN returned |-> [returned[p] EXCEPT !.clean = FALSE]]
    /\ scanned' = Unscanned
    /\ UNCHANGED <<denied, sizeCache, readers, writer, calls, stores, uiVars>>

----------------------------------------------------------------------------
(* The scanner, main.go:387-482 *)

DirEntry(name, path, size, isDir, level, children) ==
    [Name |-> name, Path |-> path, Size |-> size, IsDir |-> isDir,
     Level |-> level, Children |-> children]

\* Mutant of SortSlice: the entries are left in the order os.ReadDir gave
SortSliceUnsorted(S) ==
    {s \in [1..Cardinality(S) -> S] :
        \A i, j \in 1..Cardinality(S) : i # j => s[i] # s[j]}

\* sort.Slice with less = (Size_i > Size_j): some ordering of the entries with
\* no entry before a larger one; the order of equal sizes is not fixed.
SortSlice(S) ==
    {s \in [1..Cardinality(S) -> S] :
        /\ \A i, j \in 1..Cardinality(S) : i # j => s[i] # s[j]
        /\ \A i, j \in 1..Cardinality(S) : i < j => ~(s[j].Size > s[i].Size)}

\* The calls of getCachedSize the loop at main.go:417-457 makes, one after
\* the other: the sizes they return and the cache they leave.
RECURSIVE cachedSizes(_, _, _, _)
cachedSizes(todo, cache, f, den) ==
    IF todo = {} THEN [size |-> [p \in {} |-> 0], cache |-> cache]
    ELSE LET q == CHOOSE x \in todo : TRUE
             r == getCachedSize(cache, f, den, q)
             rest == cachedSizes(todo \ {q}, r.cache, f, den)
         IN [size |-> [p \in DOMAIN rest.size \cup {q} |->
                          IF p = q THEN r.size ELSE rest.size[p]],
             cache |-> rest.cache]

\* Mutant of shownEntries: the test at main.go:420 is left out
shownEntriesAll(f, path) == ReadDir(f, path)

\* main.go:417-422: the entries of path the loop does not skip
shownEntries(f, path) == {q \in ReadDir(f, path) : ~HasPrefixDot(Base(q))}

\* scanDirectoryWithCache(path, nil, level, showFiles): err, the entries it
\* may return (one per ordering sort.Slice may produce), and the cache after.
scanDirectoryWithCache(path, level, showFiles, cache, f, den) ==
    IF StatFails(f, path)
    THEN [err |-> TRUE, entries |-> {}, cache |-> cache]
    ELSE IF ~f[path].IsDir
    THEN [err |-> FALSE,
          entries |-> {DirEntry(Base(path), path, f[path].Size, FALSE, level, <<>>)},
          cache |-> cache]
    ELSE IF ReadDirFails(f, den, path)
    THEN [err |-> TRUE, entries |-> {}, cache |-> cache]
    ELSE LET shown == {q \in shownEntries(f, path) : ~InfoFails(f, q)}
             subdirs == {q \in shown : f[q].IsDir}
             plain == shown \ subdirs
             sized == cachedSizes(subdirs, cache, f, den)
             directories == {DirEntry(Base(q), q, sized.size[q], TRUE, level + 1, <<>>) :
                                q \in subdirs}
             files == IF showFiles
                      THEN {DirEntry(Base(q), q, f[q].Size, FALSE, level + 1, <<>>) :
                               q \in plain}
                      ELSE {}
             totalSize == SumOver(subdirs, sized.size)
                          + SumOver(plain, [q \in plain |-> f[q].Size])
         IN [err |-> FALSE,
             entries |-> {DirEntry(Base(path), path, totalSize, TRUE, level, ds \o fl) :
                             ds \in SortSlice(directories), fl \in SortSlice(files)},
             cache |-> sized.cache]

----------------------------------------------------------------------------
(* Model, main.go:51-62, and its helpers *)

NoError == "nil"
ScanError == "scan error"
ExecError == "exec error"

\* os.Getenv("USAGE_SHOW_FILES") != "false", main.go:558
showFilesOption(value) == value # "false"

\* main.go:363-385, the list built (CursorPos and ScrollPos are set to 0 by
\* the callers below)
updateVisibleDirs(root, showFiles) ==
    LET parentPath == Dir(root.Path)
        parentEntry == DirEntry(DotDot, parentPath, 0, TRUE, 0, <<>>)
        kept == SelectSeq(root.Children, LAMBDA child : child.IsDir \/ showFiles)
    IN IF parentPath # root.Path THEN <<parentEntry>> \o kept ELSE kept

\* Mutant of ensureCursorVisible: ScrollPos is left alone
ensureCursorVisibleSkipped(visible, height, cursor, scroll) == scroll

\* main.go:146-172: the ScrollPos it leaves
ensureCursorVisible(visible, height, cursor, scroll) ==
    IF Len(visible) = 0 THEN scroll
    ELSE LET maxVisible == height - HeaderRows
             moved == IF cursor < scroll THEN cursor
                      ELSE IF cursor >= scroll + maxVisible
                           THEN cursor - maxVisible + 1
                           ELSE scroll
             floored == IF moved < 0 THEN 0 ELSE moved
             maxScroll == IF Len(visible) - maxVisible < 0 THEN 0
                          ELSE Len(visible) - maxVisible
         IN IF floored > maxScroll THEN maxScroll ELSE floored

\* Mutant of loadingGuard: keys are handled while Loading
loadingGuardOff(loading) == FALSE

\* main.go:208: the test that makes Update drop keys
loadingGuard(loading) == loading

----------------------------------------------------------------------------
(* Commands and messages in flight.  A tea.Cmd runs on its own goroutine   *)
(* and its message is handed to Update later, in no fixed order.           *)

Cmd(kind, path, dir, err) == [kind |-> kind, Path |-> path, Dir |-> dir, Error |-> err]

LoadingMsg(path) == Cmd("LoadingMsg", path, NoDir, NoError)
loadDirectory(path) == Cmd("loadDirectory", path, NoDir, NoError)
LoadingCompleteMsg(dir, err) == Cmd("LoadingCompleteMsg", <<>>, dir, err)
\* Mutant of executeFile: the file is loaded as a directory is
executeFileLoads(path) == Cmd("LoadingMsg", path, NoDir, NoError)

executeFile(path) == Cmd("executeFile", path, NoDir, NoError)
ExecuteFileMsg(path, err) == Cmd("ExecuteFileMsg", path, NoDir, err)

InFlight(kind) == {c \in BagToSet(cmds) : c.kind = kind}

\* Mutant of Send: the command returned is not run
SendNothing(c) == cmds' = cmds

Send(c) == cmds' = cmds (+) SetToBag({c})
\* Mutant of Replace: the command ends without a message
ReplaceLost(c, d) == cmds' = cmds (-) SetToBag({c})

Replace(c, d) == cmds' = (cmds (-) SetToBag({c})) (+) SetToBag({d})
Receive(c) == cmds' = cmds (-) SetToBag({c})

\* A key that returns a command is followed while fewer than MaxOutstanding
\* are in flight (many), or only when none is (~many).
Room(many) ==
    IF many THEN BagCardinality(cmds) < MaxOutstanding ELSE cmds = EmptyBag

Running == exit = "running"

\* No drill-down is being followed
NoTrip == [stage |-> "none", from |-> <<>>]

\* The trip after a key asked for the load of a child of the root (down) or
\* of the root's parent: a trip starts when a child is asked for with nothing
\* in flight, and goes on when the parent is asked for from that child.
Departed(down) ==
    IF cmds # EmptyBag THEN NoTrip
    ELSE IF down THEN [stage |-> "down", from |-> RootDir.Path]
    ELSE IF trip.stage = "child" THEN [trip EXCEPT !.stage = "up"]
    ELSE NoTrip

----------------------------------------------------------------------------
(* Model.Update, main.go:174-282: one action per message *)

static == <<fs, denied, readers, writer, calls, stores, returned, scanned,
            USAGE_SHOW_FILES, ShowFiles>>

\* tea.WindowSizeMsg, main.go:176-179
WindowSizeMsg(height) ==
    /\ Running
    /\ Height' = height
    /\ ScrollPos' = ensureCursorVisible(VisibleDirs, height, CursorPos, ScrollPos)
    /\ lastMsg' = "WindowSizeMsg"
    /\ UNCHANGED <<static, sizeCache, RootDir, CursorPos, VisibleDirs, Error,
                   Loading, LoadingPath, exit, cmds, trip>>

\* LoadingMsg, main.go:181-184
UpdateLoadingMsg(msg) ==
    /\ Running
    /\ msg \in InFlight("LoadingMsg")
    /\ Loading' = TRUE
    /\ LoadingPath' = msg.Path
    /\ Replace(msg, loadDirectory(msg.Path))
    /\ lastMsg' = "LoadingMsg"
    /\ UNCHANGED <<static, sizeCache, RootDir, CursorPos, ScrollPos, VisibleDirs,
                   Error, Height, exit, trip>>

\* The command loadDirectory returns, main.go:87-94.  statErr: os.Stat fails
\* (the path has vanished or may not be read).
RunLoadDirectory(cmd, statErr) ==
    /\ Running
    /\ cmd \in InFlight("loadDirectory")
    /\ LET r == scanDirectoryWithCache(cmd.Path, 0, ShowFiles, sizeCache, fs, denied)
       IN IF statErr \/ r.err
          THEN /\ Replace(cmd, LoadingCompleteMsg(NoDir, ScanError))
               /\ UNCHANGED sizeCache
          ELSE /\ \E dir \in r.entries : Replace(cmd, LoadingCompleteMsg(dir, NoError))
               /\ sizeCache' = r.cache
    /\ UNCHANGED <<static, modelVars, exit, lastMsg, trip>>

\* Mutant of loadFailed: the error is not looked at
loadFailedNever(msg) == FALSE

\* main.go:188: the test for a failed load
loadFailed(msg) == msg.Error # NoError

\* The trip after a load has completed (loaded) or failed
Arrived(loaded) ==
    IF loaded /\ trip.stage = "down" THEN [trip EXCEPT !.stage = "child"]
    ELSE IF loaded /\ trip.stage = "up" THEN [trip EXCEPT !.stage = "back"]
    ELSE NoTrip

\* LoadingCompleteMsg, main.go:186-198
UpdateLoadingCompleteMsg(msg) ==
    /\ Running
    /\ msg \in InFlight("LoadingCompleteMsg")
    /\ Loading' = FALSE
    /\ IF loadFailed(msg)
       THEN /\ Error' = msg.Error
            /\ UNCHANGED <<RootDir, VisibleDirs, CursorPos, ScrollPos>>
       ELSE /\ RootDir' = msg.Dir
            /\ VisibleDirs' = updateVisibleDirs(msg.Dir, ShowFiles)
            /\ CursorPos' = 0
            /\ ScrollPos' = ensureCursorVisible(VisibleDirs', Height, 0, 0)
            /\ UNCHANGED Error
    /\ trip' = Arrived(~loadFailed(msg))
    /\ Receive(msg)
    /\ lastMsg' = "LoadingCompleteMsg"
    /\ UNCHANGED <<static, sizeCache, LoadingPath, Height, exit>>

\* The command executeFile returns, main.go:485-513.  started: os.Stat and
\* cmd.Start succeed.
RunExecuteFile(cmd, started) ==
    /\ Running
    /\ cmd \in InFlight("executeFile")
    /\ Replace(cmd, ExecuteFileMsg(cmd.Path, IF started THEN NoError ELSE ExecError))
    /\ UNCHANGED <<static, sizeCache, modelVars, exit, lastMsg, trip>>

\* ExecuteFileMsg has no case in Update: main.go:281
UpdateExecuteFileMsg(msg) ==
    /\ Running
    /\ msg \in InFlight("ExecuteFileMsg")
    /\ Receive(msg)
    /\ lastMsg' = "ExecuteFileMsg"
    /\ UNCHANGED <<static, sizeCache, modelVars, exit, trip>>

----------------------------------------------------------------------------
(* tea.KeyMsg, main.go:207-279 *)

QuitKeys == {"q"}
CursorKeys == {"up", "down", "home", "end", "pgup", "pgdown"}
Keys == QuitKeys \cup CursorKeys \cup {"enter", "backspace"}

keyFrame == <<static, sizeCache, RootDir, VisibleDirs, Error, Loading,
              LoadingPath, Height>>

\* main.go:208-213
KeyWhileLoading(key) ==
    /\ Running
    /\ loadingGuard(Loading)
    /\ exit' = IF key \in QuitKeys THEN "quit" ELSE exit
    /\ lastMsg' = "KeyMsg"
    /\ UNCHANGED <<keyFrame, CursorPos, ScrollPos, cmds, trip>>

\* "q", "ctrl+c", main.go:216-217
KeyQuit ==
    /\ Running
    /\ ~loadingGuard(Loading)
    /\ exit' = "quit"
    /\ lastMsg' = "KeyMsg"
    /\ UNCHANGED <<keyFrame, CursorPos, ScrollPos, cmds, trip>>

\* "up", "k", main.go:218-222
KeyUp ==
    /\ Running
    /\ ~loadingGuard(Loading)
    /\ IF CursorPos > 0
       THEN /\ CursorPos' = CursorPos - 1
            /\ ScrollPos' = ensureCursorVisible(VisibleDirs, Height, CursorPos', ScrollPos)
       ELSE UNCHANGED <<CursorPos, ScrollPos>>
    /\ lastMsg' = "KeyMsg"
    /\ UNCHANGED <<keyFrame, exit, cmds, trip>>

\* "down", "j", main.go:223-227
KeyDown ==
    /\ Running
    /\ ~loadingGuard(Loading)
    /\ IF CursorPos < Len(VisibleDirs) - 1
       THEN /\ CursorPos' = CursorPos + 1
            /\ ScrollPos' = ensureCursorVisible(VisibleDirs, Height, CursorPos', ScrollPos)
       ELSE UNCHANGED <<CursorPos, ScrollPos>>
    /\ lastMsg' = "KeyMsg"
    /\ UNCHANGED <<keyFrame, exit, cmds, trip>>

\* "home", "g", main.go:257-259
KeyHome ==
    /\ Running
    /\ ~loadingGuard(Loading)
    /\ CursorPos' = 0
    /\ ScrollPos' = ensureCursorVisible(VisibleDirs, Height, 0, ScrollPos)
    /\ lastMsg' = "KeyMsg"
    /\ UNCHANGED <<keyFrame, exit, cmds, trip>>

\* "end", "G", main.go:260-264
KeyEnd ==
    /\ Running
    /\ ~loadingGuard(Loading)
    /\ IF Len(VisibleDirs) > 0
       THEN /\ CursorPos' = Len(VisibleDirs) - 1
            /\ ScrollPos' = ensureCursorVisible(VisibleDirs, Height, CursorPos', ScrollPos)
       ELSE UNCHANGED <<CursorPos, ScrollPos>>
    /\ lastMsg' = "KeyMsg"
    /\ UNCHANGED <<keyFrame, exit, cmds, trip>>

\* main.go:266-270, the CursorPos "pgup" leaves
pageUp(cursor, height) ==
    LET maxVisible == height - HeaderRows
    IN IF cursor - maxVisible < 0 THEN 0 ELSE cursor - maxVisible

\* main.go:273-277, the CursorPos "pgdown" leaves
pageDown(cursor, height, visible) ==
    LET maxVisible == height - HeaderRows
    IN IF cursor + maxVisible >= Len(visible) THEN Len(visible) - 1
       ELSE cursor + maxVisible

InRange(cursor) == -MaxCursor <= cursor /\ cursor <= MaxCursor

\* "pgup", main.go:265-271
KeyPgUp ==
    /\ Running
    /\ ~loadingGuard(Loading)
    /\ InRange(pageUp(CursorPos, Height))
    /\ CursorPos' = pageUp(CursorPos, Height)
    /\ ScrollPos' = ensureCursorVisible(VisibleDirs, Height, CursorPos', ScrollPos)
    /\ lastMsg' = "KeyMsg"
    /\ UNCHANGED <<keyFrame, exit, cmds, trip>>

\* "pgdown", main.go:272-278
KeyPgDown ==
    /\ Running
    /\ ~loadingGuard(Loading)
    /\ InRange(pageDown(CursorPos, Height, VisibleDirs))
    /\ CursorPos' = pageDown(CursorPos, Height, VisibleDirs)
    /\ ScrollPos' = ensureCursorVisible(VisibleDirs, Height, CursorPos', ScrollPos)
    /\ lastMsg' = "KeyMsg"
    /\ UNCHANGED <<keyFrame, exit, cmds, trip>>

\* "enter", main.go:229-249.  VisibleDirs[CursorPos] with CursorPos < 0 is an
\* index out of range: the program panics.
KeyEnter(many) ==
    /\ Running
    /\ ~loadingGuard(Loading)
    /\ lastMsg' = "KeyMsg"
    /\ IF CursorPos < Len(VisibleDirs)
       THEN IF CursorPos < 0
            THEN exit' = "panic" /\ UNCHANGED <<cmds, trip>>
            ELSE LET dir == VisibleDirs[CursorPos + 1]
                     parentPath == Dir(RootDir.Path)
                 IN /\ UNCHANGED exit
                    /\ IF dir.IsDir
                       THEN IF dir.Name = DotDot
                            THEN IF parentPath # RootDir.Path
                                 THEN /\ Room(many)
                                      /\ Send(LoadingMsg(parentPath))
                                      /\ trip' = Departed(FALSE)
                                 ELSE UNCHANGED <<cmds, trip>>
                            ELSE /\ Room(many)
                                 /\ Send(LoadingMsg(dir.Path))
                                 /\ trip' = Departed(TRUE)
                       ELSE /\ Room(many)
                            /\ Send(executeFile(dir.Path))
                            /\ trip' = NoTrip
       ELSE UNCHANGED <<exit, cmds, trip>>
    /\ UNCHANGED <<keyFrame, CursorPos, ScrollPos>>

\* "backspace", "h", main.go:250-256
KeyBackspace(many) ==
    /\ Running
    /\ ~loadingGuard(Loading)
    /\ lastMsg' = "KeyMsg"
    /\ LET parentPath == Dir(RootDir.Path)
       IN IF parentPath # RootDir.Path
          THEN /\ Room(many)
               /\ Send(LoadingMsg(parentPath))
               /\ trip' = Departed(FALSE)
          ELSE UNCHANGED <<cmds, trip>>
    /\ UNCHANGED <<keyFrame, CursorPos, ScrollPos, exit>>

----------------------------------------------------------------------------
(* main, main.go:544-583 *)

\* / holds a/ (c/ (g), f, .h), b/ (.h), f and .h
Tree1 ==
    (<<>> :> Folder) @@ (<<nA>> :> Folder) @@ (<<nA, nC>> :> Folder)
    @@ (<<nA, nC, nG>> :> File(2)) @@ (<<nA, nF>> :> File(1))
    @@ (<<nA, nHid>> :> File(1)) @@ (<<nB>> :> Folder)
    @@ (<<nB, nHid>> :> File(1)) @@ (<<nF>> :> File(2)) @@ (<<nHid>> :> File(1))

\* / holds f and .h
Tree2 == (<<>> :> Folder) @@ (<<nF>> :> File(1)) @@ (<<nHid>> :> File(1))

NavTrees == {Tree1, Tree2}

EnvValues == {"", "false", "1"}

Heights == 0..MaxHeight

\* The state Run starts from for a filesystem, an environment and a working
\* directory: main.go:558-576
Started(tree, value, currentDir) ==
    LET showFiles == showFilesOption(value)
        r == scanDirectoryWithCache(currentDir, 0, showFiles, NoCache, tree, {})
    IN /\ ~r.err
       /\ fs = tree
       /\ denied = {}
       /\ USAGE_SHOW_FILES = value
       /\ ShowFiles = showFiles
       /\ \E rootDir \in r.entries :
             /\ RootDir = rootDir
             /\ VisibleDirs = updateVisibleDirs(rootDir, showFiles)
       /\ sizeCache = r.cache
       /\ CursorPos = 0
       /\ ScrollPos = 0
       /\ Height = DefaultHeight
       /\ Error = NoError
       /\ Loading = FALSE
       /\ LoadingPath = <<>>

Init ==
    /\ \E tree \in NavTrees, value \in EnvValues :
          \E currentDir \in {p \in DOMAIN tree : tree[p].IsDir /\
                                \A i \in 1..Len(p) : ~HasPrefixDot(p[i])} :
             Started(tree, value, currentDir)
    /\ readers = {}
    /\ writer = NoCaller
    /\ calls = [c \in Callers |-> IdleCall]
    /\ stores = <<>>
    /\ returned = <<>>
    /\ scanned = Unscanned
    /\ exit = "running"
    /\ cmds = EmptyBag
    /\ lastMsg = "init"
    /\ trip = NoTrip

\* What the runtime does between two states: it runs a command or hands a
\* message to Update.
Runtime ==
    \/ \E msg \in InFlight("LoadingMsg") : UpdateLoadingMsg(msg)
    \/ \E cmd \in InFlight("loadDirectory"), statErr \in BOOLEAN :
          RunLoadDirectory(cmd, statErr)
    \/ \E msg \in InFlight("LoadingCompleteMsg") : UpdateLoadingCompleteMsg(msg)
    \/ \E cmd \in InFlight("executeFile"), started \in BOOLEAN :
          RunExecuteFile(cmd, started)
    \/ \E msg \in InFlight("ExecuteFileMsg") : UpdateExecuteFileMsg(msg)

\* The keys that move the cursor
CursorKey ==
    \/ KeyUp
    \/ KeyDown
    \/ KeyHome
    \/ KeyEnd
    \/ KeyPgUp
    \/ KeyPgDown

\* Spec: the event loop in a window that keeps its default height, with up
\* to MaxOutstanding commands and messages in flight.
Next ==
    \/ Runtime
    \/ \E key \in Keys : KeyWhileLoading(key)
    \/ KeyQuit
    \/ CursorKey
    \/ KeyEnter(TRUE)
    \/ KeyBackspace(TRUE)

Spec == Init /\ [][Next]_vars

\* SpecNav: the event loop in a window resized to any height of Heights,
\* where a key that returns a command is pressed only when none is in flight.
NextNav ==
    \/ \E height \in Heights : WindowSizeMsg(height)
    \/ Runtime
    \/ \E key \in Keys : KeyWhileLoading(key)
    \/ KeyQuit
    \/ CursorKey
    \/ KeyEnter(FALSE)
    \/ KeyBackspace(FALSE)

SpecNav == Init /\ [][NextNav]_vars

----------------------------------------------------------------------------
(* Claims about Model.Update *)

Max(a, b) == IF a > b THEN a ELSE b

\* A step in which Update handles a tea.KeyMsg
KeyMsgStep(many) ==
    \/ \E key \in Keys : KeyWhileLoading(key)
    \/ KeyQuit
    \/ CursorKey
    \/ KeyEnter(many)
    \/ KeyBackspace(many)

\* The load requests outstanding: issued by a key and not yet completed
LoadRequests ==
    {c \in BagToSet(cmds) : c.kind \in {"LoadingMsg", "loadDirectory", "LoadingCompleteMsg"}}

Outstanding == SumOver(LoadRequests, [c \in LoadRequests |-> CopiesIn(c, cmds)])

\* C1 (as claimed): whenever maxVisible = Height - 2 > 0 and VisibleDirs is
\* not empty, ScrollPos <= CursorPos <= ScrollPos + maxVisible - 1.
C1_ViewportInvariant ==
    (Height - HeaderRows > 0 /\ Len(VisibleDirs) > 0) =>
        /\ ScrollPos <= CursorPos
        /\ CursorPos <= ScrollPos + (Height - HeaderRows) - 1

\* C2 (as claimed): at most one load request is outstanding at any time,
\* counted from the key that issues it until its LoadingCompleteMsg is handled.
C2_OneRequestOutstanding == Outstanding <= 1

\* C3: while Loading, a key other than quit changes no field of the Model and
\* issues no command.
C3_KeysIgnoredWhileLoading ==
    [][(Loading /\ KeyMsgStep(TRUE) /\ exit' # "quit") =>
          UNCHANGED <<RootDir, VisibleDirs, CursorPos, ScrollPos, Height, Error,
                      Loading, LoadingPath, cmds>>]_vars

C3_Witness == Loading /\ lastMsg = "KeyMsg" /\ exit = "running"

\* C4 (as claimed): when a load completes successfully the controller is
\* back in Idle: not Loading and with no error state left, also when an
\* earlier request had failed.
C4_SuccessLeavesIdle ==
    [][\A msg \in InFlight("LoadingCompleteMsg") :
          (UpdateLoadingCompleteMsg(msg) /\ msg.Error = NoError) =>
              (~Loading' /\ Error' = NoError)]_vars

\* The list C5 describes for a new root
ListedFor(root) ==
    (IF Dir(root.Path) # root.Path
     THEN <<DirEntry(DotDot, Dir(root.Path), 0, TRUE, 0, <<>>)>>
     ELSE <<>>)
    \o SelectSeq(root.Children, LAMBDA child : child.IsDir \/ ShowFiles)

Rebuilt(msg) ==
    /\ RootDir' = msg.Dir
    /\ VisibleDirs' = ListedFor(msg.Dir)
    /\ CursorPos' = 0

\* C5 (as claimed): a successful load completion makes the scanned entry the
\* root, rebuilds the list and leaves CursorPos = 0 and ScrollPos = 0.
C5_LoadResetsCursorAndScroll ==
    [][\A msg \in InFlight("LoadingCompleteMsg") :
          (UpdateLoadingCompleteMsg(msg) /\ msg.Error = NoError) =>
              (Rebuilt(msg) /\ ScrollPos' = 0)]_vars

\* C5 (amended): a successful load completion makes the scanned entry the
\* root, rebuilds the list and leaves CursorPos = 0; ScrollPos = 0 when
\* Height > 2 or the list is empty, and ScrollPos = 3 - Height otherwise.
C5_LoadResetsCursor ==
    [][\A msg \in InFlight("LoadingCompleteMsg") :
          (UpdateLoadingCompleteMsg(msg) /\ msg.Error = NoError) =>
              /\ Rebuilt(msg)
              /\ ScrollPos' = IF Height > HeaderRows \/ VisibleDirs' = <<>>
                              THEN 0 ELSE HeaderRows + 1 - Height]_vars

C5_Witness ==
    /\ lastMsg = "LoadingCompleteMsg" /\ Error = NoError /\ ~Loading
    /\ Height = HeaderRows /\ Len(VisibleDirs) = 3 /\ CursorPos = 0 /\ ScrollPos = 1

\* C6 (as claimed): 0 <= CursorPos <= len(VisibleDirs) - 1 whenever
\* VisibleDirs is not empty, and a cursor key on an empty VisibleDirs leaves
\* CursorPos unchanged.
C6_CursorClamped ==
    [][/\ Len(VisibleDirs') > 0 =>
             (0 <= CursorPos' /\ CursorPos' <= Len(VisibleDirs') - 1)
       /\ (CursorKey /\ Len(VisibleDirs) = 0) => CursorPos' = CursorPos]_vars

\* C7 (as claimed): with maxVisible = max(Height - 2, 0),
\* 0 <= ScrollPos <= max(len(VisibleDirs) - maxVisible, 0).
C7_ScrollClamped ==
    LET maxVisible == Max(Height - HeaderRows, 0)
    IN 0 <= ScrollPos /\ ScrollPos <= Max(Len(VisibleDirs) - maxVisible, 0)

----------------------------------------------------------------------------
(* SpecCache: the size cache alone, under concurrent getCachedSize calls    *)
(* while files change size.                                                *)

\* / holds a/ (c/ (g))
CacheTree ==
    (<<>> :> Folder) @@ (<<nA>> :> Folder) @@ (<<nA, nC>> :> Folder)
    @@ (<<nA, nC, nG>> :> File(1))

Sizes == 0..MaxSize

\* The Model is not running
NoModel ==
    /\ RootDir = NoDir
    /\ VisibleDirs = <<>>
    /\ CursorPos = 0
    /\ ScrollPos = 0
    /\ Height = DefaultHeight
    /\ Error = NoError
    /\ Loading = FALSE
    /\ LoadingPath = <<>>
    /\ exit = "running"
    /\ cmds = EmptyBag
    /\ lastMsg = "init"
    /\ trip = NoTrip

InitCache ==
    /\ fs = CacheTree
    /\ denied = {}
    /\ sizeCache = NoCache
    /\ readers = {}
    /\ writer = NoCaller
    /\ calls = [c \in Callers |-> IdleCall]
    /\ stores = <<>>
    /\ returned = <<>>
    /\ scanned = Unscanned
    /\ USAGE_SHOW_FILES = ""
    /\ ShowFiles = showFilesOption("")
    /\ NoModel

Subdirs == {p \in DOMAIN fs : fs[p].IsDir /\ p # FsRoot}

CallStep ==
    \/ \E c \in Callers, path \in Subdirs : RLock(c, path)
    \/ \E c \in Callers : ReadCache(c)
    \/ \E c \in Callers : Calculate(c)
    \/ \E c \in Callers : Lock(c)
    \/ \E c \in Callers : WriteCache(c)

NextCache ==
    \/ CallStep
    \/ \E file \in DOMAIN fs, n \in Sizes : WriteFile(file, n)

SpecCache == InitCache /\ [][NextCache]_vars

----------------------------------------------------------------------------
(* SpecScan: scanDirectoryWithCache called directly on the paths of a tree  *)
(* whose files change size between the calls.                              *)

\* / holds a/ (c/ (g)), b/ (.h), f and g
ScanTree ==
    (<<>> :> Folder) @@ (<<nA>> :> Folder) @@ (<<nA, nC>> :> Folder)
    @@ (<<nA, nC, nG>> :> File(1)) @@ (<<nB>> :> Folder)
    @@ (<<nB, nHid>> :> File(1)) @@ (<<nF>> :> File(1)) @@ (<<nG>> :> File(1))

\* ScanTree after g was removed, while the listing of / still names it
ScanTreeStale == [ScanTree EXCEPT ![<<nG>>].NoInfo = TRUE]

InitScan ==
    /\ fs \in {ScanTree, ScanTreeStale}
    /\ denied \in SUBSET {<<nA, nC>>}
    /\ sizeCache = NoCache
    /\ readers = {}
    /\ writer = NoCaller
    /\ calls = [c \in Callers |-> IdleCall]
    /\ stores = <<>>
    /\ returned = <<>>
    /\ scanned = Unscanned
    /\ USAGE_SHOW_FILES \in EnvValues
    /\ ShowFiles = showFilesOption(USAGE_SHOW_FILES)
    /\ NoModel

\* dir, err := scanDirectoryWithCache(path, nil, 0, ShowFiles); scanned
\* keeps the result until the filesystem next changes.
Scan(path) ==
    /\ LET r == scanDirectoryWithCache(path, 0, ShowFiles, sizeCache, fs, denied)
       IN /\ sizeCache' = r.cache
          /\ IF r.err
             THEN scanned' = [path |-> path, err |-> TRUE, dir |-> NoDir]
             ELSE \E dir \in r.entries :
                     scanned' = [path |-> path, err |-> FALSE, dir |-> dir]
    /\ UNCHANGED <<fs, denied, readers, writer, calls, stores, returned, uiVars>>

NextScan ==
    \/ \E path \in DOMAIN fs : Scan(path)
    \/ \E file \in DOMAIN fs, n \in Sizes : WriteFile(file, n)

SpecScan == InitScan /\ [][NextScan]_vars

----------------------------------------------------------------------------
(* Claims about the scanner *)

RECURSIVE SizeSum(_)
SizeSum(entries) ==
    IF entries = <<>> THEN 0 ELSE Head(entries).Size + SizeSum(Tail(entries))

\* The directory the last scan returned, if it returned one
ScannedDir == ~scanned.err /\ scanned.dir.IsDir

\* The files of the scanned directory that are not hidden and whose size
\* can be read
PlainFiles ==
    {q \in ReadDir(fs, scanned.path) :
        ~fs[q].IsDir /\ ~HasPrefixDot(Base(q)) /\ ~fs[q].NoInfo}

\* C10: a scanned directory's Size is the sum of its Children's sizes plus,
\* when showFiles is false, the sizes of its files that are not hidden; no
\* child is hidden; a directory with nothing but hidden entries has Size 0
\* and no Children.
C10_SizeIsSumOfChildren ==
    ScannedDir =>
        LET D == scanned.dir
            unlisted == IF ShowFiles THEN {} ELSE PlainFiles
        IN /\ D.Size = SizeSum(D.Children)
                       + SumOver(unlisted, [q \in unlisted |-> fs[q].Size])
           /\ \A i \in 1..Len(D.Children) : ~HasPrefixDot(D.Children[i].Name)
           /\ (\A q \in ReadDir(fs, scanned.path) : HasPrefixDot(Base(q))) =>
                 (D.Size = 0 /\ D.Children = <<>>)

C10_Witness ==
    /\ ScannedDir /\ ~ShowFiles /\ scanned.path = FsRoot
    /\ Len(scanned.dir.Children) = 2
    /\ SizeSum(scanned.dir.Children) = 2
    /\ scanned.dir.Size = 5

----------------------------------------------------------------------------
(* Claims about the size cache *)

C9_CacheIdempotent ==
    [][\A c \in Callers :
          LET p == calls[c].path
          IN (ReadCache(c) /\ p \in DOMAIN returned /\ returned[p].clean) =>
                /\ calls'[c].pc = "idle"
                /\ returned'[p].size = returned[p].size]_vars

\* A second call holds the read lock for a path whose first call computed,
\* stored and returned, with no file written since.
C9_Witness ==
    \E c \in Callers :
        /\ At(c, "RLocked")
        /\ calls[c].path \in DOMAIN returned
        /\ returned[calls[c].path].clean
        /\ stores[calls[c].path] = 1
        /\ \A d \in Callers \ {c} : At(d, "idle")

----------------------------------------------------------------------------
(* Claims about the order of the entries *)

\* Directories before files, and sizes not increasing within each group
GroupSorted(list) ==
    \A i, j \in 1..Len(list) :
        i < j =>
            /\ list[j].IsDir => list[i].IsDir
            /\ list[i].IsDir = list[j].IsDir => list[i].Size >= list[j].Size

\* VisibleDirs after its ".." entry, when it has one
AfterDotDot ==
    IF VisibleDirs # <<>> /\ Head(VisibleDirs).Name = DotDot
    THEN Tail(VisibleDirs) ELSE VisibleDirs

----------------------------------------------------------------------------
(* Claims about drilling down and up *)

\* The load of the parent, asked for from a child that was drilled into from
\* an idle state, has just completed
TripBack == trip.stage = "back" /\ lastMsg = "LoadingCompleteMsg"

\* C12 (as claimed): after drilling into a child of root R and, once loaded,
\* drilling up, the root's Path is R.Path and CursorPos = 0 and ScrollPos = 0.
C12_RoundTripScrollZero ==
    TripBack => (RootDir.Path = trip.from /\ CursorPos = 0 /\ ScrollPos = 0)

\* C12 (amended): after drilling into a child of root R and, once loaded,
\* drilling up, the root's Path is R.Path and CursorPos = 0; ScrollPos = 0
\* when Height > 2 or the list is empty, and ScrollPos = 3 - Height otherwise.
C12_RoundTrip ==
    TripBack =>
        /\ RootDir.Path = trip.from
        /\ CursorPos = 0
        /\ ScrollPos = IF Height > HeaderRows \/ VisibleDirs = <<>>
                       THEN 0 ELSE HeaderRows + 1 - Height

\* Back at /a from /a/c
C12_Witness == TripBack /\ trip.from = <<nA>> /\ RootDir.Path = <<nA>>

\* cmds' is cmds and one more LoadingMsg, for path
OneMoreLoadRequest(path) ==
    \E c \in BagToSet(cmds') :
        /\ c.kind = "LoadingMsg"
        /\ c.Path = path
        /\ cmds' = cmds (+) SetToBag({c})

\* C13: when the root is the filesystem root (its parent path is its own
\* path), the back key issues no load request and leaves RootDir,
\* VisibleDirs, CursorPos, ScrollPos and Loading unchanged; otherwise it
\* issues one load request, for the parent of the root, wherever the cursor
\* is, and changes none of these fields either.
C13_BackAtFsRoot ==
    [][KeyBackspace(FALSE) =>
          /\ UNCHANGED <<RootDir, VisibleDirs, CursorPos, ScrollPos, Loading>>
          /\ IF RootDir.Path = FsRoot
             THEN UNCHANGED cmds
             ELSE OneMoreLoadRequest(SubSeq(RootDir.Path, 1, Len(RootDir.Path) - 1))]_vars

\* The back key was pressed with the cursor below the ".." entry, and the
\* load of the parent is asked for
C13_Witness ==
    /\ lastMsg = "KeyMsg" /\ CursorPos >= 1 /\ RootDir.Path # FsRoot
    /\ cmds = SetToBag({LoadingMsg(Dir(RootDir.Path))})

----------------------------------------------------------------------------
(* SpecFair: the event loop of Spec where the runtime keeps running the     *)
(* commands in flight and handing their messages to Update: every          *)
(* goroutine bubbletea starts for a command is scheduled, and Update is    *)
(* called for every message.                                               *)

\* Runtime, with the two outcomes of a load command listed apart
Scheduled ==
    \/ \E msg \in InFlight("LoadingMsg") : UpdateLoadingMsg(msg)
    \/ \E cmd \in InFlight("loadDirectory") : RunLoadDirectory(cmd, TRUE)
    \/ \E cmd \in InFlight("loadDirectory") : RunLoadDirectory(cmd, FALSE)
    \/ \E msg \in InFlight("LoadingCompleteMsg") : UpdateLoadingCompleteMsg(msg)
    \/ \E cmd \in InFlight("executeFile"), started \in BOOLEAN :
          RunExecuteFile(cmd, started)
    \/ \E msg \in InFlight("ExecuteFileMsg") : UpdateExecuteFileMsg(msg)

\* Init without the value "1", which sets ShowFiles as the unset variable does
InitFair == Init /\ USAGE_SHOW_FILES \in {"", "false"}

SpecFair == InitFair /\ [][Next]_vars /\ WF_vars(Scheduled)

\* The load requests Update has taken up and not yet seen the result of
Scanning ==
    {c \in BagToSet(cmds) : c.kind \in {"loadDirectory", "LoadingCompleteMsg"}}

Taken == SumOver(Scanning, [c \in Scanning |-> CopiesIn(c, cmds)])

\* C14: a load request Update has taken up gets exactly one result: the scan
\* command turns into one LoadingCompleteMsg, which only Update takes away;
\* and while the program runs, Loading = TRUE leads to Loading = FALSE.
C14_OneResultPerRequest ==
    /\ [][/\ (\E msg \in InFlight("LoadingMsg") : UpdateLoadingMsg(msg)) =>
                Taken' = Taken + 1
          /\ (\E cmd \in InFlight("loadDirectory"), statErr \in BOOLEAN :
                 RunLoadDirectory(cmd, statErr)) =>
                /\ Taken' = Taken
                /\ Cardinality(InFlight("LoadingCompleteMsg")) + 1
                      >= Cardinality(InFlight("LoadingCompleteMsg")')
                /\ BagCardinality(cmds') = BagCardinality(cmds)
          /\ Taken' < Taken =>
                \E msg \in InFlight("LoadingCompleteMsg") :
                    UpdateLoadingCompleteMsg(msg) /\ Taken' = Taken - 1]_vars
    /\ (Loading ~> (~Loading \/ ~Running))

\* A load has completed and nothing is left in flight
C14_Witness ==
    /\ lastMsg = "LoadingCompleteMsg" /\ ~Loading /\ Running /\ cmds = EmptyBag
    /\ RootDir.Path = LoadingPath

----------------------------------------------------------------------------
(* Claims about launching a file *)

\* The cursor is on a file entry
OnFile ==
    /\ 0 <= CursorPos /\ CursorPos < Len(VisibleDirs)
    /\ ~VisibleDirs[CursorPos + 1].IsDir

\* cmds' is cmds and one more executeFile command, for path
OneMoreLaunch(path) ==
    \E c \in BagToSet(cmds') :
        /\ c.kind = "executeFile"
        /\ c.Path = path
        /\ cmds' = cmds (+) SetToBag({c})

\* C15: enter on a file entry issues one launch of that file and no load
\* request, and neither that key nor the ExecuteFileMsg that reports the
\* launch (started or failed) changes RootDir, VisibleDirs, CursorPos,
\* ScrollPos, Loading or Error, or issues anything.
C15_FileSelectLaunches ==
    [][/\ (KeyEnter(TRUE) /\ OnFile) =>
             /\ OneMoreLaunch(VisibleDirs[CursorPos + 1].Path)
             /\ UNCHANGED <<RootDir, VisibleDirs, CursorPos, ScrollPos, Loading, Error>>
       /\ \A msg \in InFlight("ExecuteFileMsg") :
             UpdateExecuteFileMsg(msg) =>
                /\ cmds' = cmds (-) SetToBag({msg})
                /\ UNCHANGED <<RootDir, VisibleDirs, CursorPos, ScrollPos, Loading,
                               Error>>]_vars

\* Update has handled the report of a launch, with the cursor on a file and
\* nothing else in flight
C15_Witness ==
    /\ lastMsg = "ExecuteFileMsg" /\ OnFile /\ ~Loading /\ Error = NoError
    /\ cmds = EmptyBag

----------------------------------------------------------------------------
(* Claims about cacheMutex *)

\* The calls that are between lock and unlock around a map access
Reading == {c \in Callers : At(c, "RLocked")}
Writing == {c \in Callers : At(c, "Locked")}

\* C16: a call that reads sizeCache holds the shared lock and a call that
\* writes it holds the exclusive lock, so that no call reads or writes the
\* map while another writes it; an entry is in the map only once a call has
\* stored its total, a lookup that finds the path returns the stored total,
\* and a store for one path leaves the lookup of every other path as it was.
C16_LockSafety ==
    /\ [](/\ Reading = readers
          /\ Writing = IF writer = NoCaller THEN {} ELSE {writer}
          /\ Writing # {} => (Reading = {} /\ Cardinality(Writing) = 1)
          /\ \A p \in DOMAIN sizeCache : p \in DOMAIN stores /\ stores[p] >= 1)
    /\ [][\A c \in Callers :
            LET path == calls[c].path
            IN /\ (ReadCache(c) /\ path \in DOMAIN sizeCache) =>
                     (calls'[c].pc = "idle" /\ returned'[path].size = sizeCache[path])
               /\ WriteCache(c) =>
                     \A p \in DOMAIN fs \ {path} :
                         /\ p \in DOMAIN sizeCache' <=> p \in DOMAIN sizeCache
                         /\ p \in DOMAIN sizeCache => sizeCache'[p] = sizeCache[p]]_vars

\* A call holds the exclusive lock to store one path while another call
\* waits for the lock and a different path is in the map
C16_Witness ==
    \E c, d \in Callers :
        /\ At(c, "Locked") /\ writer = c /\ At(d, "Lock")
        /\ \E p \in DOMAIN sizeCache : p # calls[c].path

----------------------------------------------------------------------------
(* Claims about the listing mode *)

\* The entries of list that are files
FilesIn(list) == {i \in 1..Len(list) : ~list[i].IsDir}

\* C17 (as claimed): with USAGE_SHOW_FILES unset ShowFiles is false and no
\* file is in the root's Children or in VisibleDirs; ShowFiles is true only
\* when the variable is set to enable it.
C17_DirectoriesOnlyByDefault ==
    /\ USAGE_SHOW_FILES = "" =>
          /\ ~ShowFiles
          /\ FilesIn(RootDir.Children) = {}
          /\ FilesIn(VisibleDirs) = {}
    /\ ShowFiles => USAGE_SHOW_FILES \notin {"", "false"}

----------------------------------------------------------------------------
(* Claims about the enter key and about failed loads *)

\* C18 (as claimed): whenever enter reads VisibleDirs[CursorPos], that is
\* whenever it is handled outside Loading with CursorPos < len(VisibleDirs),
\* 0 <= CursorPos holds, and the program does not panic.
C18_EnterInRange ==
    [][(KeyEnter(FALSE) /\ CursorPos < Len(VisibleDirs)) =>
          (0 <= CursorPos /\ exit' # "panic")]_vars

\* C19: handling a LoadingCompleteMsg that carries an error leaves RootDir,
\* VisibleDirs, CursorPos, ScrollPos, Height and ShowFiles unchanged, sets
\* Loading = FALSE and Error, and issues nothing; and from the moment Update
\* takes a request up (Loading = TRUE) to its result nothing changes these
\* fields but a resize or the successful result of another request, so that
\* they are as they were before the request.
C19_FailedLoadFrame ==
    [][/\ \A msg \in InFlight("LoadingCompleteMsg") :
             (UpdateLoadingCompleteMsg(msg) /\ msg.Dir = NoDir) =>
                /\ UNCHANGED <<RootDir, VisibleDirs, CursorPos, ScrollPos, Height,
                               ShowFiles>>
                /\ ~Loading' /\ Error' = msg.Error /\ Error' # NoError
                /\ cmds' = cmds (-) SetToBag({msg})
       /\ (/\ Loading
           /\ \A height \in Heights : ~WindowSizeMsg(height)
           /\ \A msg \in InFlight("LoadingCompleteMsg") :
                 ~(UpdateLoadingCompleteMsg(msg) /\ msg.Dir # NoDir)) =>
             UNCHANGED <<RootDir, VisibleDirs, CursorPos, ScrollPos, Height,
                         ShowFiles>>]_vars

\* A load has just failed and nothing is in flight: no request was issued
C19_Witness ==
    /\ lastMsg = "LoadingCompleteMsg" /\ Error = ScanError /\ ~Loading
    /\ cmds = EmptyBag /\ RootDir.Path # LoadingPath /\ CursorPos > 0

----------------------------------------------------------------------------
(* Claims about the sizes listed *)

\* The size of the files below path that no hidden name leads to, counted
\* from the filesystem itself
TreeSize(path) ==
    LET below == {q \in DOMAIN fs :
                     /\ Len(q) > Len(path)
                     /\ SubSeq(q, 1, Len(path)) = path
                     /\ \A i \in (Len(path) + 1)..Len(q) : q[i][1] # "."
                     /\ ~fs[q].IsDir}
    IN SumOver(below, [q \in below |-> fs[q].Size])

\* C20: with the filesystem left alone and every entry readable, the size a
\* directory shows as a child in its parent's listing is the Size of the root
\* obtained by drilling into it, and both are the size of the tree below it,
\* whatever ShowFiles is and whichever sizes were cached before.
C20_ListedSizeIsRootSize ==
    /\ [](/\ RootDir.Size = TreeSize(RootDir.Path)
          /\ \A i \in 1..Len(RootDir.Children) :
                RootDir.Children[i].IsDir =>
                    RootDir.Children[i].Size = TreeSize(RootDir.Children[i].Path)
          /\ \A p \in DOMAIN sizeCache : sizeCache[p] = TreeSize(p))
    /\ [][\A msg \in InFlight("LoadingCompleteMsg") :
            \A i \in 1..Len(RootDir.Children) :
                (/\ UpdateLoadingCompleteMsg(msg)
                 /\ msg.Dir # NoDir
                 /\ msg.Dir.Path = RootDir.Children[i].Path) =>
                    RootDir'.Size = RootDir.Children[i].Size]_vars

\* The root is /a after a load, listed with size 3 in / before
C20_Witness ==
    /\ lastMsg = "LoadingCompleteMsg" /\ RootDir.Path = <<nA>> /\ RootDir.Size = 3
    /\ trip.stage = "child" /\ trip.from = FsRoot
    /\ <<nA, nC>> \in DOMAIN sizeCache /\ <<nA>> \in DOMAIN sizeCache

====
